---- MODULE Spec2Model ----
(***************************************************************************)
(* Model of the supplier-to-marketplace synchronisation scripts seller.py  *)
(* (Ozon) and market.py (Yandex Market): price normalisation, batch        *)
(* partitioning, catalog pagination, stock and price reconciliation and    *)
(* the sync runs that submit the batches.                                  *)
(*                                                                         *)
(* Python strings whose characters matter (quantities, prices) are         *)
(* sequences of one-character strings; offer ids and supplier codes are    *)
(* compared only for equality and are plain strings.                       *)
(***************************************************************************)
EXTENDS Integers, Sequences, FiniteSets, TLC

(***************************************************************************)
(* Bounds of the model.                                                    *)
(***************************************************************************)
\* longest supplier feed over the rows of ShapeRows
MaxFeed == 3
\* longest supplier feed over all of Rows
MaxShort == 2
\* most offer ids in a catalog handed directly to a reconciler
MaxIds == 3
\* longest list handed to divide, and largest chunk size tried
MaxLst == 5
MaxN == 3
\* longest supplier feed of a sync run
MaxRunFeed == 2
\* longest price string handed directly to price_conversion
MaxPrice == 3
\* the page sizes the listings are asked for (1000 in seller.py line 49, 200
\* in market.py line 46), scaled to the catalogs of the model
OZON_LIMIT == 2
MARKET_LIMIT == 2
\* the batch ceilings (seller.py: 100 for stocks on lines 391 and 418, 900
\* for prices in main on line 422, 1000 in upload_prices on line 362;
\* market.py: 2000 for stocks on lines 328, 365 and 374, 500 for prices on
\* line 298), scaled to the lists of the model
OZON_STOCKS == 2
OZON_PRICES_MAIN == 2
OZON_PRICES == 2
MARKET_STOCKS == 2
MARKET_PRICES == 2

Min(x, y) == IF x <= y THEN x ELSE y

\* the sequences over S of length lo..hi
SeqsOf(S, lo, hi) == UNION {[1..k -> S] : k \in lo..hi}

NoDup(s) == \A i, j \in 1..Len(s) : s[i] = s[j] => i = j

Elems(s) == {s[i] : i \in 1..Len(s)}

RECURSIVE Concat(_)
Concat(ss) == IF ss = <<>> THEN <<>> ELSE Head(ss) \o Concat(Tail(ss))

(***************************************************************************)
(* Python built-ins used by the scripts.                                   *)
(***************************************************************************)
DIGITS == <<"0", "1", "2", "3", "4", "5", "6", "7", "8", "9">>

IsDigit(c) == \E i \in 1..Len(DIGITS) : DIGITS[i] = c

DigitVal(c) == (CHOOSE i \in 1..Len(DIGITS) : DIGITS[i] = c) - 1

\* list.remove(x): drops the first occurrence of x (x is known to be there)
ListRemove(lst, x) ==
    LET k == CHOOSE i \in 1..Len(lst) :
                 lst[i] = x /\ \A j \in 1..(i - 1) : lst[j] # x
    IN  SubSeq(lst, 1, k - 1) \o SubSeq(lst, k + 1, Len(lst))

\* x in lst
In(x, lst) == \E i \in 1..Len(lst) : lst[i] = x

\* lst[i:j] for 0 <= i <= j
Slice(lst, i, j) == SubSeq(lst, i + 1, Min(j, Len(lst)))

\* range(0, stop, step) for step > 0
Range0(stop, step) ==
    [k \in 1..((stop + step - 1) \div step) |-> (k - 1) * step]

RECURSIVE StripLeft(_)
StripLeft(s) ==
    IF s # <<>> /\ Head(s) = " " THEN StripLeft(Tail(s)) ELSE s

RECURSIVE StripRight(_)
StripRight(s) ==
    IF s # <<>> /\ s[Len(s)] = " "
    THEN StripRight(SubSeq(s, 1, Len(s) - 1)) ELSE s

RECURSIVE DigitsValue(_)
DigitsValue(s) ==
    IF s = <<>> THEN 0
    ELSE DigitsValue(SubSeq(s, 1, Len(s) - 1)) * 10 + DigitVal(s[Len(s)])

\* int(s) for a str: surrounding blanks are ignored, one optional sign, then
\* decimal digits; anything else raises ValueError (ok = FALSE).  No string
\* of the model has the "_" that Python also allows between digits.
int(s) ==
    LET t    == StripRight(StripLeft(s))
        sgn  == t # <<>> /\ Head(t) \in {"-", "+"}
        body == IF sgn THEN Tail(t) ELSE t
    IN  IF body # <<>> /\ \A i \in 1..Len(body) : IsDigit(body[i])
        THEN [ok |-> TRUE,
              v  |-> IF sgn /\ Head(t) = "-" THEN 0 - DigitsValue(body)
                     ELSE DigitsValue(body)]
        ELSE [ok |-> FALSE, v |-> 0]

(***************************************************************************)
(* seller.price_conversion (market.py imports it).                         *)
(***************************************************************************)
\* price.split(".")[0]: the part before the first "."
SplitDot0(price) ==
    IF \E i \in 1..Len(price) : price[i] = "."
    THEN SubSeq(price, 1,
                (CHOOSE i \in 1..Len(price) :
                     price[i] = "." /\ \A j \in 1..(i - 1) : price[j] # ".") - 1)
    ELSE price

\* mutant: the digits of the whole string
price_conversion_all(price) == SelectSeq(price, IsDigit)

\* line 309
price_conversion(price) == SelectSeq(SplitDot0(price), IsDigit)

(***************************************************************************)
(* seller.divide (market.py imports it): the chunks the generator yields,  *)
(* in order.                                                               *)
(***************************************************************************)
\* line 336: the values i takes
divide_range(lst, n) == Range0(Len(lst), n)

\* mutant: the slice stops one short
divide_yield_short(lst, n, i) == Slice(lst, i, i + n - 1)

\* line 337: what is yielded at i
divide_yield(lst, n, i) == Slice(lst, i, i + n)

\* list(divide(lst, n))
divide(lst, n) ==
    [k \in 1..Len(divide_range(lst, n)) |->
        divide_yield(lst, n, divide_range(lst, n)[k])]

(***************************************************************************)
(* Supplier feed rows (download_stock): the columns "Код", "Количество" and *)
(* "Цена" of the spreadsheet, here Kod, Kolichestvo and Tsena.             *)
(***************************************************************************)
\* the ">10" and "1" quantity tokens
MORE_THAN_TEN == <<">", "1", "0">>
ONE == <<"1">>

Ids == {"a", "b", "c"}

\* quantity and price cells of a row; the two columns are read by different
\* functions, so they are varied together
Cells ==
    { [q |-> MORE_THAN_TEN,    p |-> <<"5", "'", "9", "9", "0", ".", "0", "0", " ", "r", ".">>],
      [q |-> ONE,              p |-> <<>>],
      [q |-> <<"1", "0">>,     p |-> <<"1", " ", "2", "0", "0", ".", "5", "0">>],
      [q |-> <<"5">>,          p |-> <<"0", " ", "r", ".">>],
      [q |-> <<"0">>,          p |-> <<"9", "9">>],
      [q |-> <<"-", "3">>,     p |-> <<"n", "e", "t">>],
      [q |-> <<"x">>,          p |-> <<".", "5">>] }

Rows == {[Kod |-> c, Kolichestvo |-> x.q, Tsena |-> x.p] : c \in Ids, x \in Cells}

\* rows that differ in what a reconciler does with them: a row both
\* reconcilers accept, and a row whose quantity is no integer and whose price
\* has no digit before the "."
ShapeQuantities == {MORE_THAN_TEN, <<"x">>}

ShapeRows == {r \in Rows : r.Kolichestvo \in ShapeQuantities}

Feeds == SeqsOf(ShapeRows, 0, MaxFeed) \cup SeqsOf(Rows, 0, MaxShort)

\* catalogs list every offer id once
IdLists == {s \in SeqsOf(Ids, 0, MaxIds) : NoDup(s)}


(***************************************************************************)
(* seller.create_stocks.  A call returns [exc, ret, offer_ids]: the        *)
(* exception raised ("" when none), the returned list, and the caller's    *)
(* offer_ids list as the call leaves it (the list is changed in place).    *)
(***************************************************************************)
\* lines 222-228: the stock of a matched row, or ok = FALSE when int() raises
seller_stock(watch) ==
    LET count == watch.Kolichestvo
    IN  IF count = MORE_THAN_TEN THEN [ok |-> TRUE, v |-> 100]
        ELSE IF count = ONE THEN [ok |-> TRUE, v |-> 0]
        ELSE int(watch.Kolichestvo)

\* mutant: the matched id is left in the list
seller_remove_skipped(offer_ids, code) == offer_ids

\* line 230
seller_remove(offer_ids, code) == ListRemove(offer_ids, code)

\* lines 220-230: the loop over the feed
RECURSIVE seller_stocks_matched(_, _, _)
seller_stocks_matched(watch_remnants, offer_ids, stocks) ==
    IF watch_remnants = <<>>
    THEN [exc |-> "", stocks |-> stocks, offer_ids |-> offer_ids]
    ELSE LET watch == Head(watch_remnants)
         IN  IF In(watch.Kod, offer_ids)
             THEN LET stock == seller_stock(watch)
                  IN  IF ~stock.ok
                      THEN [exc |-> "ValueError", stocks |-> stocks,
                            offer_ids |-> offer_ids]
                      ELSE seller_stocks_matched(
                               Tail(watch_remnants),
                               seller_remove(offer_ids, watch.Kod),
                               Append(stocks, [offer_id |-> watch.Kod,
                                               stock |-> stock.v]))
             ELSE seller_stocks_matched(Tail(watch_remnants), offer_ids, stocks)

\* mutant: the remaining ids are taken last to first
seller_stocks_rest_reversed(offer_ids) ==
    [i \in 1..Len(offer_ids) |->
        [offer_id |-> offer_ids[Len(offer_ids) + 1 - i], stock |-> 0]]

\* lines 231-232: a zero record for every id still in offer_ids
seller_stocks_rest(offer_ids) ==
    [i \in 1..Len(offer_ids) |-> [offer_id |-> offer_ids[i], stock |-> 0]]

seller_create_stocks(watch_remnants, offer_ids) ==
    LET m == seller_stocks_matched(watch_remnants, offer_ids, <<>>)
    IN  IF m.exc # ""
        THEN [exc |-> m.exc, ret |-> <<>>, offer_ids |-> m.offer_ids]
        ELSE [exc |-> "", ret |-> m.stocks \o seller_stocks_rest(m.offer_ids),
              offer_ids |-> m.offer_ids]

(***************************************************************************)
(* market.create_stocks.                                                   *)
(***************************************************************************)
\* mutant: "1" is read as the number one
market_stock_literal(watch) ==
    LET count == watch.Kolichestvo
    IN  IF count = MORE_THAN_TEN THEN [ok |-> TRUE, v |-> 100]
        ELSE int(watch.Kolichestvo)

\* lines 196-202
market_stock(watch) ==
    LET count == watch.Kolichestvo
    IN  IF count = MORE_THAN_TEN THEN [ok |-> TRUE, v |-> 100]
        ELSE IF count = ONE THEN [ok |-> TRUE, v |-> 0]
        ELSE int(watch.Kolichestvo)

\* lines 203-215 and 219-231: one record of the output
market_sku(sku, warehouse_id, count, date) ==
    [sku |-> sku, warehouseId |-> warehouse_id,
     items |-> <<[count |-> count, type |-> "FIT", updatedAt |-> date]>>]

\* line 216
market_remove(offer_ids, code) == ListRemove(offer_ids, code)

\* lines 194-216
RECURSIVE market_stocks_matched(_, _, _, _, _)
market_stocks_matched(watch_remnants, offer_ids, warehouse_id, date, stocks) ==
    IF watch_remnants = <<>>
    THEN [exc |-> "", stocks |-> stocks, offer_ids |-> offer_ids]
    ELSE LET watch == Head(watch_remnants)
         IN  IF In(watch.Kod, offer_ids)
             THEN LET stock == market_stock(watch)
                  IN  IF ~stock.ok
                      THEN [exc |-> "ValueError", stocks |-> stocks,
                            offer_ids |-> offer_ids]
                      ELSE market_stocks_matched(
                               Tail(watch_remnants),
                               market_remove(offer_ids, watch.Kod),
                               warehouse_id, date,
                               Append(stocks, market_sku(watch.Kod, warehouse_id,
                                                         stock.v, date)))
             ELSE market_stocks_matched(Tail(watch_remnants), offer_ids,
                                        warehouse_id, date, stocks)

\* lines 218-231
market_stocks_rest(offer_ids, warehouse_id, date) ==
    [i \in 1..Len(offer_ids) |-> market_sku(offer_ids[i], warehouse_id, 0, date)]

\* date is the utcnow() reading of line 193
market_create_stocks(watch_remnants, offer_ids, warehouse_id, date) ==
    LET m == market_stocks_matched(watch_remnants, offer_ids, warehouse_id,
                                   date, <<>>)
    IN  IF m.exc # ""
        THEN [exc |-> m.exc, ret |-> <<>>, offer_ids |-> m.offer_ids]
        ELSE [exc |-> "",
              ret |-> m.stocks \o market_stocks_rest(m.offer_ids, warehouse_id, date),
              offer_ids |-> m.offer_ids]

(***************************************************************************)
(* create_prices of both scripts; neither changes offer_ids.               *)
(***************************************************************************)
\* mutant: a code gets a record for its first row only
RECURSIVE seller_priced_once(_, _)
seller_priced_once(watch_remnants, offer_ids) ==
    IF watch_remnants = <<>> THEN <<>>
    ELSE LET watch == watch_remnants[Len(watch_remnants)]
             front == SubSeq(watch_remnants, 1, Len(watch_remnants) - 1)
         IN  IF In(watch.Kod, offer_ids)
                /\ \A i \in 1..Len(front) : front[i].Kod # watch.Kod
             THEN Append(seller_priced_once(front, offer_ids), watch)
             ELSE seller_priced_once(front, offer_ids)

\* seller.py line 261 / market.py line 259: the rows that get a record
seller_priced(watch_remnants, offer_ids) ==
    SelectSeq(watch_remnants, LAMBDA watch : In(watch.Kod, offer_ids))

market_priced(watch_remnants, offer_ids) ==
    SelectSeq(watch_remnants, LAMBDA watch : In(watch.Kod, offer_ids))

\* seller.py lines 262-268
seller_price(watch) ==
    [auto_action_enabled |-> "UNKNOWN", currency_code |-> "RUB",
     offer_id |-> watch.Kod, old_price |-> "0",
     price |-> price_conversion(watch.Tsena)]

seller_create_prices(watch_remnants, offer_ids) ==
    LET hit == seller_priced(watch_remnants, offer_ids)
    IN  [exc |-> "", ret |-> [i \in 1..Len(hit) |-> seller_price(hit[i])],
         offer_ids |-> offer_ids]

\* market.py lines 260-271; int() raises ValueError on an empty digit string
market_price(watch) ==
    [id |-> watch.Kod,
     price |-> [value |-> int(price_conversion(watch.Tsena)).v,
                currencyId |-> "RUR"]]

market_create_prices(watch_remnants, offer_ids) ==
    LET hit == market_priced(watch_remnants, offer_ids)
    IN  IF \E i \in 1..Len(hit) : ~int(price_conversion(hit[i].Tsena)).ok
        THEN [exc |-> "ValueError", ret |-> <<>>, offer_ids |-> offer_ids]
        ELSE [exc |-> "", ret |-> [i \in 1..Len(hit) |-> market_price(hit[i])],
              offer_ids |-> offer_ids]

(***************************************************************************)
(* State.                                                                  *)
(***************************************************************************)
VARIABLES
    prog,            \* the entry point that is running
    pc,              \* where it is
    exc,             \* the exception that ended a call or a coroutine, or that main
                     \* caught, "" when none
    feed,            \* the supplier's file: what download_stock returns
    catalog,         \* the marketplace: the offer ids of each campaign, in order
    endToken,        \* the marketplace: the nextPageToken of a last page
    trailing,        \* the marketplace: whether an empty page ends a listing
    now,             \* the clock
    watch_remnants,  \* the feed as held by the program
    known,           \* the offer-id list as the last get_offer_ids returned it
                     \* (in the call harness: as handed to the call)
    offer_ids,       \* the program's offer_ids list
    stocks,          \* the last create_stocks result
    prices,          \* the last create_prices result
    campaign,        \* the campaign (market.py) or shop (seller.py) worked on
    page,            \* get_offer_ids: the cursor, page or last_id
    product_list,    \* get_offer_ids: the products gathered so far
    batches,         \* the chunks of list(divide(...)) not yet submitted
    not_empty,       \* upload_stocks: the records with a non-zero quantity
    calls,           \* every update_stocks and update_price call made, in order
    fetches,         \* every get_product_list call made, in order
    report,          \* what main printed: "", or the kind of failure
    lst, n, chunks,  \* divide: its arguments and the chunks yielded so far
    price,           \* price_conversion: its argument
    converted        \* price_conversion: what it returned

envVars == <<feed, catalog, endToken, trailing>>
recVars == <<watch_remnants, known, offer_ids, stocks, prices>>
runVars == <<now, campaign, page, product_list, batches, not_empty, calls,
             fetches, report>>
divVars == <<lst, n, chunks>>
conVars == <<price, converted>>

vars == <<prog, pc, exc, envVars, recVars, runVars, divVars, conVars>>

\* the cursors of the two listings: "" and None, and the token of page k
EMPTY == <<"str", 0>>
NONE == <<"None", 0>>
Token(k) == <<"str", k>>

\* the variables of divide's harness, at rest
NoDivide == lst = <<>> /\ n = 1 /\ chunks = <<>>

\* the variables of price_conversion, at rest
NoConvert == price = <<>> /\ converted = <<>>

\* the variables of the reconcilers, at rest
NoReconcile ==
    /\ watch_remnants = <<>> /\ known = <<>>
    /\ offer_ids = <<>> /\ stocks = <<>> /\ prices = <<>>

\* the marketplace and the variables of a sync run, at rest
NoRun ==
    /\ catalog = <<>> /\ endToken = EMPTY /\ trailing = FALSE
    /\ now = "t1" /\ campaign = "" /\ page = EMPTY /\ product_list = <<>>
    /\ batches = <<>> /\ not_empty = <<>> /\ calls = <<>> /\ fetches = <<>>
    /\ report = ""

(***************************************************************************)
(* SpecReconcile: one call of a reconciler on a feed and an offer-id list. *)
(***************************************************************************)
InitReconcile ==
    /\ prog = "call"
    /\ pc = "args"
    /\ exc = ""
    /\ feed \in Feeds
    /\ watch_remnants = feed
    /\ known \in IdLists
    /\ offer_ids = known
    /\ stocks = <<>>
    /\ prices = <<>>
    /\ NoRun
    /\ NoDivide
    /\ NoConvert

\* the call ends: r is what it raised, returned and left of offer_ids
Returned(fn, r) ==
    /\ prog' = fn
    /\ pc' = IF r.exc = "" THEN "returned" ELSE "raised"
    /\ exc' = r.exc
    /\ offer_ids' = r.offer_ids

CallSellerCreateStocks ==
    /\ prog = "call" /\ pc = "args"
    /\ LET r == seller_create_stocks(watch_remnants, offer_ids)
       IN  Returned("seller.create_stocks", r) /\ stocks' = r.ret
    /\ UNCHANGED <<envVars, conVars, runVars, divVars, watch_remnants, known, prices>>

CallMarketCreateStocks ==
    /\ prog = "call" /\ pc = "args"
    /\ \E call \in {<<"wFBS", "t1">>, <<"wDBS", "t2">>} :
        LET r == market_create_stocks(watch_remnants, offer_ids, call[1], call[2])
        IN  Returned("market.create_stocks", r) /\ stocks' = r.ret
    /\ UNCHANGED <<envVars, conVars, runVars, divVars, watch_remnants, known, prices>>

CallSellerCreatePrices ==
    /\ prog = "call" /\ pc = "args"
    /\ LET r == seller_create_prices(watch_remnants, offer_ids)
       IN  Returned("seller.create_prices", r) /\ prices' = r.ret
    /\ UNCHANGED <<envVars, conVars, runVars, divVars, watch_remnants, known, stocks>>

CallMarketCreatePrices ==
    /\ prog = "call" /\ pc = "args"
    /\ LET r == market_create_prices(watch_remnants, offer_ids)
       IN  Returned("market.create_prices", r) /\ prices' = r.ret
    /\ UNCHANGED <<envVars, conVars, runVars, divVars, watch_remnants, known, stocks>>

NextReconcile ==
    \/ CallSellerCreateStocks
    \/ CallMarketCreateStocks
    \/ CallSellerCreatePrices
    \/ CallMarketCreatePrices

SpecReconcile == InitReconcile /\ [][NextReconcile]_vars

(***************************************************************************)
(* Reading the records of either marketplace.                              *)
(***************************************************************************)
StockId(r) == IF "offer_id" \in DOMAIN r THEN r.offer_id ELSE r.sku

StockQty(r) == IF "stock" \in DOMAIN r THEN r.stock ELSE r.items[1].count

PriceId(r) == IF "offer_id" \in DOMAIN r THEN r.offer_id ELSE r.id

StockIds(ss) == [i \in 1..Len(ss) |-> StockId(ss[i])]

PriceIds(ps) == [i \in 1..Len(ps) |-> PriceId(ps[i])]

StocksReturned ==
    pc = "returned" /\ prog \in {"seller.create_stocks", "market.create_stocks"}

PricesReturned ==
    pc = "returned" /\ prog \in {"seller.create_prices", "market.create_prices"}

\* the codes of the rows of f whose code is in the set S, in feed order
RECURSIVE CodesIn(_, _)
CodesIn(f, S) ==
    IF f = <<>> THEN <<>>
    ELSE IF Head(f).Kod \in S THEN <<Head(f).Kod>> \o CodesIn(Tail(f), S)
    ELSE CodesIn(Tail(f), S)

\* s without the repeats of an entry
RECURSIVE Firsts(_)
Firsts(s) ==
    IF s = <<>> THEN <<>>
    ELSE LET front == Firsts(SubSeq(s, 1, Len(s) - 1))
         IN  IF s[Len(s)] \in Elems(front) THEN front ELSE Append(front, s[Len(s)])

\* the first row of f with code id
FirstRow(f, id) ==
    f[CHOOSE i \in 1..Len(f) : f[i].Kod = id /\ \A j \in 1..(i - 1) : f[j].Kod # id]

\* the decimal numeral of an integer
RECURSIVE NatRepr(_)
NatRepr(v) ==
    IF v < 10 THEN <<DIGITS[v + 1]>>
    ELSE NatRepr(v \div 10) \o <<DIGITS[(v % 10) + 1]>>

Repr(v) == IF v < 0 THEN <<"-">> \o NatRepr(0 - v) ELSE NatRepr(v)

(***************************************************************************)
(* C1: whenever create_stocks (of either script) returns, every id of the  *)
(* known offer-id list is the id of exactly one output record and every    *)
(* output record carries an id of the known list, whatever the feed        *)
(* (repeated codes, codes the catalog does not have).                      *)
(***************************************************************************)
C1_CoversKnownOnce ==
    StocksReturned =>
        /\ \A id \in Elems(known) :
               Cardinality({i \in 1..Len(stocks) : StockId(stocks[i]) = id}) = 1
        /\ \A i \in 1..Len(stocks) : StockId(stocks[i]) \in Elems(known)

\* a returned call whose feed repeats a code of the catalog and also has a
\* code the catalog does not have, while some known id has no row
C1_Witness ==
    /\ StocksReturned
    /\ \E i, j \in 1..Len(feed) :
           i < j /\ feed[i].Kod = feed[j].Kod /\ feed[i].Kod \in Elems(known)
    /\ \E i \in 1..Len(feed) : feed[i].Kod \notin Elems(known)
    /\ \E id \in Elems(known) : \A i \in 1..Len(feed) : feed[i].Kod # id

(***************************************************************************)
(* C3: whenever create_prices (of either script) returns, its output has   *)
(* one record per feed row whose code is in the known list, repeated codes *)
(* included, in feed order, and nothing else: no record for a known id     *)
(* without a row, and no record at all when no code is known.              *)
(***************************************************************************)
C3_PricePerMatchingRow ==
    PricesReturned => PriceIds(prices) = CodesIn(feed, Elems(known))

\* a returned call with a repeated known code, an unknown code and a known
\* id that has no row
C3_Witness ==
    /\ PricesReturned
    /\ \E i, j \in 1..Len(feed) :
           i < j /\ feed[i].Kod = feed[j].Kod /\ feed[i].Kod \in Elems(known)
    /\ \E i \in 1..Len(feed) : feed[i].Kod \notin Elems(known)
    /\ \E id \in Elems(known) : \A i \in 1..Len(feed) : feed[i].Kod # id

\* a returned call where no code is known, so nothing is emitted
C3_WitnessEmpty ==
    /\ PricesReturned
    /\ feed # <<>> /\ known # <<>>
    /\ \A i \in 1..Len(feed) : feed[i].Kod \notin Elems(known)
    /\ prices = <<>>

(***************************************************************************)
(* C7: whenever create_stocks returns, the record emitted for a feed row   *)
(* that matched has quantity 100 if the row's quantity is ">10", 0 if it   *)
(* is "1", and otherwise the integer whose decimal numeral the quantity    *)
(* string is.                                                              *)
(***************************************************************************)
C7_QuantityRule ==
    StocksReturned =>
        \A i \in 1..Len(stocks) :
            LET id == StockId(stocks[i])
            IN  id \in Elems(CodesIn(feed, Elems(known))) =>
                    LET count == FirstRow(feed, id).Kolichestvo
                    IN  IF count = MORE_THAN_TEN THEN StockQty(stocks[i]) = 100
                        ELSE IF count = ONE THEN StockQty(stocks[i]) = 0
                        ELSE Repr(StockQty(stocks[i])) = count

\* a returned call that matched a "1" row and a "10" row
C7_Witness ==
    /\ StocksReturned
    /\ Len(stocks) >= 2
    /\ Len(Firsts(CodesIn(feed, Elems(known)))) >= 2
    /\ FirstRow(feed, StockId(stocks[1])).Kolichestvo = ONE
    /\ StockQty(stocks[1]) = 0
    /\ FirstRow(feed, StockId(stocks[2])).Kolichestvo = <<"1", "0">>
    /\ StockQty(stocks[2]) = 10

(***************************************************************************)
(* C8: whenever create_stocks returns, the output is the records of the    *)
(* matched rows in feed order, followed by zero-quantity records for the   *)
(* known ids no row matched, in the order of the known list.               *)
(***************************************************************************)
C8_MatchedThenRest ==
    StocksReturned =>
        LET matched == Firsts(CodesIn(feed, Elems(known)))
            rest    == SelectSeq(known, LAMBDA id : id \notin Elems(matched))
        IN  /\ StockIds(stocks) = matched \o rest
            /\ \A i \in (Len(matched) + 1)..Len(stocks) : StockQty(stocks[i]) = 0

\* two rows matched in the opposite order of the known list, and a known
\* id without a row that the known list has before one of them
C8_Witness ==
    /\ StocksReturned
    /\ \E i, j \in 1..Len(feed), k, l, u \in 1..Len(known) :
           /\ i < j /\ l < k /\ u < k
           /\ feed[i].Kod = known[k] /\ feed[j].Kod = known[l]
           /\ \A x \in 1..Len(feed) : feed[x].Kod # known[u]

(***************************************************************************)
(* C9: whenever create_stocks returns, every record of the output has a    *)
(* quantity >= 0.                                                          *)
(***************************************************************************)
C9_QuantityNonNegative ==
    StocksReturned => \A i \in 1..Len(stocks) : StockQty(stocks[i]) >= 0

(***************************************************************************)
(* C13: when create_prices (of either script) is called on a feed with a   *)
(* row whose code is in the known list and whose price normalizes to the   *)
(* empty string, the call returns, and its output has a record for every   *)
(* matching row, the record of such a row carrying the empty value.        *)
(***************************************************************************)
PriceValue(r) == IF "offer_id" \in DOMAIN r THEN r.price ELSE r.price.value

\* the rows of f whose code is in the set S, in feed order
RowsIn(f, S) == SelectSeq(f, LAMBDA watch : watch.Kod \in S)

C13_EmptyPriceEmitted ==
    LET hit == RowsIn(feed, Elems(known))
    IN  (/\ prog \in {"seller.create_prices", "market.create_prices"}
         /\ \E i \in 1..Len(hit) : price_conversion(hit[i].Tsena) = <<>>) =>
            /\ pc = "returned"
            /\ Len(prices) = Len(hit)
            /\ \A i \in 1..Len(hit) :
                   /\ PriceId(prices[i]) = hit[i].Kod
                   /\ price_conversion(hit[i].Tsena) = <<>> =>
                          PriceValue(prices[i]) = <<>>

(***************************************************************************)
(* SpecDivide: the generator divide(lst, n) run to exhaustion, one chunk   *)
(* per step; chunks collects what it yields.                               *)
(***************************************************************************)
Items == {"x", "y"}

InitDivide ==
    /\ prog = "divide"
    /\ pc = "args"
    /\ lst \in SeqsOf(Items, 0, MaxLst)
    /\ n \in 1..MaxN
    /\ chunks = <<>>
    /\ exc = "" /\ feed = <<>>
    /\ NoReconcile
    /\ NoRun
    /\ NoConvert

\* next(): the loop of line 336 has another i
DivideYield ==
    /\ prog = "divide" /\ pc \in {"args", "yielded"}
    /\ Len(chunks) < Len(divide_range(lst, n))
    /\ chunks' = Append(chunks,
                        divide_yield(lst, n, divide_range(lst, n)[Len(chunks) + 1]))
    /\ pc' = "yielded"
    /\ UNCHANGED <<prog, exc, envVars, conVars, recVars, runVars, lst, n>>

\* next(): the loop is over
DivideStop ==
    /\ prog = "divide" /\ pc \in {"args", "yielded"}
    /\ Len(chunks) = Len(divide_range(lst, n))
    /\ pc' = "returned"
    /\ UNCHANGED <<prog, exc, envVars, conVars, recVars, runVars, divVars>>

NextDivide == DivideYield \/ DivideStop

SpecDivide == InitDivide /\ [][NextDivide]_vars

(***************************************************************************)
(* C4: divide(lst, n) with n > 0 yields ceil(len(lst)/n) chunks; chunk k   *)
(* (from 0) is lst[k*n : (k+1)*n]; all but the last have n items, the last *)
(* between 1 and n; an empty list yields no chunk; the chunks put          *)
(* together are lst.                                                       *)
(***************************************************************************)
C4_Partition ==
    (prog = "divide" /\ pc = "returned") =>
        /\ Len(chunks) * n >= Len(lst)
        /\ (Len(chunks) - 1) * n < Len(lst)
        /\ \A k \in 1..Len(chunks) :
               /\ Len(chunks[k]) = IF k < Len(chunks) THEN n
                                   ELSE Len(lst) - (k - 1) * n
               /\ Len(chunks[k]) \in 1..n
               /\ \A j \in 1..Len(chunks[k]) : chunks[k][j] = lst[(k - 1) * n + j]
        /\ Concat(chunks) = lst
        /\ chunks = divide(lst, n)

\* a list that splits into two full chunks and a shorter last one
C4_Witness ==
    /\ prog = "divide" /\ pc = "returned"
    /\ Len(chunks) = 3
    /\ Len(chunks[1]) = n /\ Len(chunks[2]) = n /\ Len(chunks[3]) < n

(***************************************************************************)
(* SpecPrice: one call of price_conversion on a price string.              *)
(***************************************************************************)
\* a digit, a digit that would round up, the separator of the fraction, a
\* thousands separator, a blank and a letter
PriceChars == {"5", "9", ".", "'", " ", "r"}

\* the short strings over PriceChars, and the price cells of the feeds
PriceStrings == SeqsOf(PriceChars, 0, MaxPrice) \cup {c.p : c \in Cells}

InitPrice ==
    /\ prog = "price_conversion"
    /\ pc = "args"
    /\ price \in PriceStrings
    /\ converted = <<>>
    /\ exc = "" /\ feed = <<>>
    /\ NoReconcile
    /\ NoRun
    /\ NoDivide

\* line 309: str.split and re.sub raise nothing on a str
PriceConversion ==
    /\ prog = "price_conversion" /\ pc = "args"
    /\ converted' = price_conversion(price)
    /\ pc' = "returned"
    /\ UNCHANGED <<prog, exc, envVars, recVars, runVars, divVars, price>>

NextPrice == PriceConversion

SpecPrice == InitPrice /\ [][NextPrice]_vars

(***************************************************************************)
(* C14: price_conversion(raw) returns, for every string raw, the digit     *)
(* characters, in order, of the part of raw before its first "." (of all   *)
(* of raw when it has none): only digits, the fraction cut off and never   *)
(* rounded, the empty string when that part has no digit; it never raises. *)
(***************************************************************************)
\* read from the left: a "." ends the reading, a digit is kept, anything
\* else is passed over
RECURSIVE DigitsBeforeDot(_)
DigitsBeforeDot(raw) ==
    IF raw = <<>> \/ Head(raw) = "." THEN <<>>
    ELSE IF Head(raw) \in {"0", "1", "2", "3", "4", "5", "6", "7", "8", "9"}
    THEN <<Head(raw)>> \o DigitsBeforeDot(Tail(raw))
    ELSE DigitsBeforeDot(Tail(raw))

C14_DigitsBeforeDot ==
    (prog = "price_conversion" /\ pc # "args") =>
        /\ pc = "returned"
        /\ converted = DigitsBeforeDot(price)
        /\ \A i \in 1..Len(converted) :
               converted[i] \in {"0", "1", "2", "3", "4", "5", "6", "7", "8", "9"}
        /\ price = <<>> => converted = <<>>
        /\ price = <<"n", "e", "t">> => converted = <<>>
        /\ price = <<"9", ".", "9">> => converted = <<"9">>
        /\ price = <<"5", "'", "9", "9", "0", ".", "0", "0", " ", "r", ".">> =>
               converted = <<"5", "9", "9", "0">>
        /\ price = <<"1", " ", "2", "0", "0", ".", "5", "0">> =>
               converted = <<"1", "2", "0", "0">>

\* a price with a thousands separator, a fraction and a currency came back
\* as the digits of its whole part
C14_Witness ==
    /\ prog = "price_conversion" /\ pc = "returned"
    /\ price = <<"5", "'", "9", "9", "0", ".", "0", "0", " ", "r", ".">>
    /\ converted = <<"5", "9", "9", "0">>

(***************************************************************************)
(* The marketplaces, as get_product_list sees them.                        *)
(***************************************************************************)
\* seller.get_product_list: the page after last_id ("" for the first), the
\* size of the whole catalog, and the cursor for the next page
seller_get_product_list(last_id, client_id) ==
    LET cat   == catalog[client_id]
        start == IF last_id = "" THEN 0
                 ELSE CHOOSE i \in 1..Len(cat) : cat[i] = last_id
        ids   == Slice(cat, start, start + OZON_LIMIT)
    IN  [items   |-> [i \in 1..Len(ids) |-> [offer_id |-> ids[i]]],
         total   |-> Len(cat),
         last_id |-> IF ids = <<>> THEN "" ELSE ids[Len(ids)]]

\* the pages of a Yandex listing; there is always a first page
MarketPages(cat) ==
    IF cat = <<>> THEN << <<>> >>
    ELSE divide(cat, MARKET_LIMIT) \o (IF trailing THEN << <<>> >> ELSE <<>>)

\* market.get_product_list: the page a token stands for ("" for the first)
\* and the token of the next page
market_get_product_list(token, campaign_id) ==
    LET pages == MarketPages(catalog[campaign_id])
        k     == IF token = EMPTY THEN 1 ELSE token[2]
    IN  [offerMappingEntries |->
             [i \in 1..Len(pages[k]) |-> [offer |-> [shopSku |-> pages[k][i]]]],
         paging |-> [nextPageToken |->
                         IF k < Len(pages) THEN Token(k + 1) ELSE endToken]]

(***************************************************************************)
(* get_offer_ids of both scripts: the loop's exit tests and the result.    *)
(***************************************************************************)
\* mutant: the loop ends one item early
seller_last_page_short(total, product_list_) == total <= Len(product_list_) + 1

\* seller.py line 85
seller_last_page(total, product_list_) == total = Len(product_list_)

\* seller.py lines 87-90
seller_offer_ids(product_list_) ==
    [i \in 1..Len(product_list_) |-> product_list_[i].offer_id]

\* mutant: only a missing token ends the loop
market_last_page_none(page_) == page_ = NONE

\* market.py line 159: not page
market_last_page(page_) == page_ \in {EMPTY, NONE}

\* market.py lines 161-164
market_offer_ids(product_list_) ==
    [i \in 1..Len(product_list_) |-> product_list_[i].offer.shopSku]

(***************************************************************************)
(* The lists that are submitted, chunk by chunk.                           *)
(***************************************************************************)
NonZero(stocks_) == SelectSeq(stocks_, LAMBDA stock : StockQty(stock) # 0)

\* mutant: only the records with a quantity are submitted
seller_stock_batches_not_empty(stocks_) == divide(NonZero(stocks_), OZON_STOCKS)

\* seller.py lines 391 and 418
seller_stock_batches(stocks_) == divide(stocks_, OZON_STOCKS)

\* market.py lines 328, 365 and 374
market_stock_batches(stocks_) == divide(stocks_, MARKET_STOCKS)

\* seller.py lines 362 and 422
seller_price_batches(program, prices_) ==
    divide(prices_, IF program = "seller.main" THEN OZON_PRICES_MAIN ELSE OZON_PRICES)

\* market.py line 298
market_price_batches(prices_) == divide(prices_, MARKET_PRICES)

\* seller.py line 393 and market.py lines 330-332
not_empty_of(stocks_) == NonZero(stocks_)

(***************************************************************************)
(* Spec: the entry points.  seller.main and market.main are the scripts;   *)
(* the upload_* coroutines are run to completion by their caller.          *)
(***************************************************************************)
SellerProgs == {"seller.main", "seller.upload_stocks", "seller.upload_prices"}
MarketProgs == {"market.main", "market.upload_stocks", "market.upload_prices"}
Mains == {"seller.main", "market.main"}
StockProgs == {"seller.main", "market.main", "seller.upload_stocks",
               "market.upload_stocks"}

\* the listing order of a marketplace
IdOrder == <<"a", "b", "c">>

\* the catalogs of a sync run: some of the ids, in listing order
RunLists ==
    {s \in IdLists : \A i, j \in 1..Len(s) :
        i < j => \E x, y \in 1..Len(IdOrder) : x < y /\ IdOrder[x] = s[i] /\ IdOrder[y] = s[j]}

\* the rows of the feed of a sync run
RunRows ==
    {r \in Rows : \/ r.Kolichestvo = MORE_THAN_TEN
                  \/ r.Kolichestvo = ONE /\ r.Kod = "a"
                  \/ r.Kolichestvo = <<"x">> /\ r.Kod = "b"}

RunFeeds == SeqsOf(RunRows, 0, MaxRunFeed)

\* what requests raises, and ValueError from int()
Transport == {"ReadTimeout", "ConnectionError", "HTTPError"}

WarehouseOf(c) == IF c = "FBS" THEN "wFBS" ELSE "wDBS"

Init ==
    /\ prog \in SellerProgs \cup MarketProgs
    /\ feed \in RunFeeds
    /\ catalog \in [IF prog \in SellerProgs THEN {"OZON"}
                    ELSE IF prog = "market.main" THEN {"FBS", "DBS"}
                    ELSE {"FBS"} -> RunLists]
    /\ endToken \in IF prog \in MarketProgs THEN {EMPTY, NONE} ELSE {EMPTY}
    /\ trailing \in IF prog \in MarketProgs THEN BOOLEAN ELSE {FALSE}
    /\ now = "t1"
    /\ pc = IF prog = "market.main" THEN "download" ELSE "fetch"
    /\ exc = ""
    /\ watch_remnants = IF prog \in Mains THEN <<>> ELSE feed
    /\ known = <<>> /\ offer_ids = <<>> /\ stocks = <<>> /\ prices = <<>>
    /\ campaign = IF prog \in SellerProgs THEN "OZON" ELSE "FBS"
    /\ page = IF prog \in SellerProgs THEN "" ELSE EMPTY
    /\ product_list = <<>>
    /\ batches = <<>> /\ not_empty = <<>> /\ calls = <<>> /\ fetches = <<>>
    /\ report = ""
    /\ NoDivide
    /\ NoConvert

\* where a program goes after get_offer_ids, after the stock batches and
\* after the price batches
AfterFetch ==
    IF prog = "seller.main" THEN "download"
    ELSE IF prog \in {"seller.upload_prices", "market.upload_prices"} THEN "prices"
    ELSE "stocks"

AfterStocks ==
    IF prog = "seller.main" THEN "prices"
    ELSE IF prog = "market.main" THEN "coroutine"
    ELSE "not_empty"

\* the position in a loop over the chunks b, and after it
InLoop(b, here, after) == IF b = <<>> THEN after ELSE here

\* mutant: the handler of Exception comes first and takes every exception
Raise_generic(e) ==
    IF prog = "seller.main" \/ (prog = "market.main" /\ pc # "download")
    THEN /\ report' = "ERROR_2"
         /\ pc' = "done"
         /\ exc' = e
    ELSE /\ report' = ""
         /\ pc' = "raised"
         /\ exc' = e

\* an exception e leaves the program: main's handlers (seller.py lines
\* 424-429, market.py lines 378-383) report it and main ends; nothing handles it in a
\* coroutine, nor around download_stock in market.main (line 359)
Raise(e) ==
    IF prog = "seller.main" \/ (prog = "market.main" /\ pc # "download")
    THEN /\ report' = IF e = "ReadTimeout" THEN "timeout"
                      ELSE IF e = "ConnectionError" THEN "connection"
                      ELSE "ERROR_2"
         /\ pc' = "done"
         /\ exc' = e
    ELSE /\ report' = ""
         /\ pc' = "raised"
         /\ exc' = e

\* seller.get_offer_ids, lines 80-86: one pass of the loop, and lines 87-90
\* after the last
SellerGetProductList ==
    /\ prog \in SellerProgs /\ pc = "fetch"
    /\ LET some_prod == seller_get_product_list(page, campaign)
           gathered  == product_list \o some_prod.items
       IN  /\ product_list' = gathered
           /\ page' = some_prod.last_id
           /\ fetches' = Append(fetches,
                  [campaign |-> campaign, page |-> page,
                   ids |-> seller_offer_ids(some_prod.items),
                   next |-> some_prod.last_id])
           /\ IF seller_last_page(some_prod.total, gathered)
              THEN /\ offer_ids' = seller_offer_ids(gathered)
                   /\ known' = seller_offer_ids(gathered)
                   /\ pc' = AfterFetch
              ELSE UNCHANGED <<offer_ids, known, pc>>
    /\ UNCHANGED <<prog, exc, envVars, conVars, divVars, now, watch_remnants, stocks,
                   prices, campaign, batches, not_empty, calls, report>>

\* market.get_offer_ids, lines 155-160: one pass of the loop, and lines
\* 161-164 after the last
MarketGetProductList ==
    /\ prog \in MarketProgs /\ pc = "fetch"
    /\ LET some_prod == market_get_product_list(page, campaign)
           gathered  == product_list \o some_prod.offerMappingEntries
           next      == some_prod.paging.nextPageToken
       IN  /\ product_list' = gathered
           /\ page' = next
           /\ fetches' = Append(fetches,
                  [campaign |-> campaign, page |-> page,
                   ids |-> market_offer_ids(some_prod.offerMappingEntries),
                   next |-> next])
           /\ IF market_last_page(next)
              THEN /\ offer_ids' = market_offer_ids(gathered)
                   /\ known' = market_offer_ids(gathered)
                   /\ pc' = AfterFetch
              ELSE UNCHANGED <<offer_ids, known, pc>>
    /\ UNCHANGED <<prog, exc, envVars, conVars, divVars, now, watch_remnants, stocks,
                   prices, campaign, batches, not_empty, calls, report>>

\* get_product_list raises (raise_for_status, or the transport)
GetProductListFails ==
    /\ pc = "fetch"
    /\ \E e \in Transport : Raise(e)
    /\ UNCHANGED <<prog, envVars, conVars, recVars, divVars, now, campaign, page,
                   product_list, batches, not_empty, calls, fetches>>

\* download_stock returns the supplier's rows
DownloadStock ==
    /\ prog \in Mains /\ pc = "download"
    /\ watch_remnants' = feed
    /\ pc' = IF prog = "seller.main" THEN "stocks" ELSE "fetch"
    /\ UNCHANGED <<prog, exc, envVars, conVars, divVars, runVars, known, offer_ids,
                   stocks, prices>>

DownloadStockFails ==
    /\ prog \in Mains /\ pc = "download"
    /\ \E e \in Transport : Raise(e)
    /\ UNCHANGED <<prog, envVars, conVars, recVars, divVars, now, campaign, page,
                   product_list, batches, not_empty, calls, fetches>>

\* create_stocks and list(divide(stocks, ...)): seller.py lines 390-391 and
\* 417-418, market.py lines 327-328, 364-365 and 373-374
CreateStocks ==
    /\ prog \in StockProgs /\ pc = "stocks"
    /\ LET r == IF prog \in SellerProgs
                THEN seller_create_stocks(watch_remnants, offer_ids)
                ELSE market_create_stocks(watch_remnants, offer_ids,
                                          WarehouseOf(campaign), now)
           b == IF prog \in SellerProgs THEN seller_stock_batches(r.ret)
                ELSE market_stock_batches(r.ret)
       IN  /\ offer_ids' = r.offer_ids
           /\ IF r.exc # ""
              THEN Raise(r.exc) /\ UNCHANGED <<stocks, batches>>
              ELSE /\ stocks' = r.ret
                   /\ batches' = b
                   /\ pc' = InLoop(b, "send_stocks", AfterStocks)
                   /\ UNCHANGED <<exc, report>>
    /\ now' = IF prog \in MarketProgs THEN "t2" ELSE now
    /\ UNCHANGED <<prog, envVars, conVars, divVars, watch_remnants, known, prices,
                   campaign, page, product_list, not_empty, calls, fetches>>

\* update_stocks on the next chunk
UpdateStocks ==
    /\ pc = "send_stocks" /\ batches # <<>>
    /\ calls' = Append(calls, [fn |-> "update_stocks", campaign |-> campaign,
                               batch |-> Head(batches)])
    /\ batches' = Tail(batches)
    /\ pc' = InLoop(Tail(batches), "send_stocks", AfterStocks)
    /\ UNCHANGED <<prog, exc, envVars, conVars, recVars, divVars, now, campaign, page,
                   product_list, not_empty, fetches, report>>

UpdateStocksFails ==
    /\ pc = "send_stocks" /\ batches # <<>>
    /\ \E e \in Transport : Raise(e)
    /\ UNCHANGED <<prog, envVars, conVars, recVars, divVars, now, campaign, page,
                   product_list, batches, not_empty, calls, fetches>>

\* upload_stocks: seller.py lines 393-394, market.py lines 330-333
NotEmpty ==
    /\ pc = "not_empty"
    /\ not_empty' = not_empty_of(stocks)
    /\ pc' = "done"
    /\ UNCHANGED <<prog, exc, envVars, conVars, recVars, divVars, now, campaign, page,
                   product_list, batches, calls, fetches, report>>

\* create_prices and list(divide(prices, ...)): seller.py lines 361-362 and
\* 421-422, market.py lines 297-298
CreatePrices ==
    /\ pc = "prices"
    /\ LET r == IF prog \in SellerProgs
                THEN seller_create_prices(watch_remnants, offer_ids)
                ELSE market_create_prices(watch_remnants, offer_ids)
           b == IF prog \in SellerProgs THEN seller_price_batches(prog, r.ret)
                ELSE market_price_batches(r.ret)
       IN  IF r.exc # ""
           THEN Raise(r.exc) /\ UNCHANGED <<prices, batches>>
           ELSE /\ prices' = r.ret
                /\ batches' = b
                /\ pc' = InLoop(b, "send_prices", "done")
                /\ UNCHANGED <<exc, report>>
    /\ UNCHANGED <<prog, envVars, conVars, divVars, now, watch_remnants, known,
                   offer_ids, stocks, campaign, page, product_list, not_empty,
                   calls, fetches>>

\* update_price on the next chunk
UpdatePrice ==
    /\ pc = "send_prices" /\ batches # <<>>
    /\ calls' = Append(calls, [fn |-> "update_price", campaign |-> campaign,
                               batch |-> Head(batches)])
    /\ batches' = Tail(batches)
    /\ pc' = InLoop(Tail(batches), "send_prices", "done")
    /\ UNCHANGED <<prog, exc, envVars, conVars, recVars, divVars, now, campaign, page,
                   product_list, not_empty, fetches, report>>

UpdatePriceFails ==
    /\ pc = "send_prices" /\ batches # <<>>
    /\ \E e \in Transport : Raise(e)
    /\ UNCHANGED <<prog, envVars, conVars, recVars, divVars, now, campaign, page,
                   product_list, batches, not_empty, calls, fetches>>

\* market.main lines 368 and 377: upload_prices(...) is called without await,
\* so the call makes a coroutine object and no line of its body runs; main
\* goes on to the DBS campaign (line 371) or ends
UploadPricesNotAwaited ==
    /\ prog = "market.main" /\ pc = "coroutine"
    /\ IF campaign = "FBS"
       THEN /\ campaign' = "DBS"
            /\ page' = EMPTY
            /\ product_list' = <<>>
            /\ pc' = "fetch"
       ELSE /\ pc' = "done"
            /\ UNCHANGED <<campaign, page, product_list>>
    /\ UNCHANGED <<prog, exc, envVars, conVars, recVars, divVars, now, batches,
                   not_empty, calls, fetches, report>>

Next ==
    \/ SellerGetProductList
    \/ MarketGetProductList
    \/ GetProductListFails
    \/ DownloadStock
    \/ DownloadStockFails
    \/ CreateStocks
    \/ UpdateStocks
    \/ UpdateStocksFails
    \/ NotEmpty
    \/ CreatePrices
    \/ UpdatePrice
    \/ UpdatePriceFails
    \/ UploadPricesNotAwaited

Spec == Init /\ [][Next]_vars

(***************************************************************************)
(* Reading the logs of a run.                                              *)
(***************************************************************************)
\* the calls of fn made for the campaign being worked on
CallsOf(fn) ==
    SelectSeq(calls, LAMBDA c : c.fn = fn /\ c.campaign = campaign)

Batches(cs) == [i \in 1..Len(cs) |-> cs[i].batch]

\* the get_product_list calls made for the campaign being worked on
Fetched == SelectSeq(fetches, LAMBDA f : f.campaign = campaign)

\* the run is past the stock batches of the campaign and nothing has failed
StocksSubmitted ==
    /\ prog \in StockProgs
    /\ pc \in {"prices", "send_prices", "coroutine", "not_empty", "done"}
    /\ report = ""

StockCeiling == IF prog \in SellerProgs THEN OZON_STOCKS ELSE MARKET_STOCKS

(***************************************************************************)
(* C2: when a run of seller.main ends without a failure, every row of the  *)
(* feed whose code is an offer id of the paginated catalog has a price     *)
(* record in a batch that update_price was called with.                    *)
(***************************************************************************)
C2_PricesOfKnownSubmitted ==
    (prog = "seller.main" /\ pc = "done" /\ report = "") =>
        \A i \in 1..Len(watch_remnants) :
            watch_remnants[i].Kod \in Elems(known) =>
                \E c \in 1..Len(calls) :
                    /\ calls[c].fn = "update_price"
                    /\ \E j \in 1..Len(calls[c].batch) :
                           PriceId(calls[c].batch[j]) = watch_remnants[i].Kod

(***************************************************************************)
(* C5: the stock records of a campaign go out in ceil(L/N) update_stocks   *)
(* calls, call i carrying chunk i of the reconciled list, one after the    *)
(* other; together the calls carry the whole list, zero quantities         *)
(* included.                                                               *)
(***************************************************************************)
C5_StocksInChunks ==
    LET sc == CallsOf("update_stocks")
        N  == StockCeiling
    IN  /\ (prog \in StockProgs /\ pc = "send_stocks") =>
               /\ \A i \in 1..Len(sc) :
                      sc[i].batch = Slice(stocks, (i - 1) * N, i * N)
               /\ Len(sc) * N < Len(stocks)
        /\ StocksSubmitted =>
               /\ Len(sc) * N >= Len(stocks)
               /\ (Len(sc) - 1) * N < Len(stocks)
               /\ \A i \in 1..Len(sc) :
                      sc[i].batch = Slice(stocks, (i - 1) * N, i * N)
               /\ Concat(Batches(sc)) = stocks

\* a list of three records went out as a full chunk and a shorter one, a
\* zero-quantity record among them
C5_Witness ==
    /\ StocksSubmitted
    /\ LET sc == CallsOf("update_stocks")
       IN  /\ Len(sc) = 2
           /\ Len(sc[1].batch) = StockCeiling
           /\ Len(sc[2].batch) < StockCeiling
           /\ \E i \in 1..Len(sc) : \E j \in 1..Len(sc[i].batch) :
                  StockQty(sc[i].batch[j]) = 0
           /\ \E i \in 1..Len(stocks) : StockQty(stocks[i]) # 0

(***************************************************************************)
(* C10: market.get_offer_ids fetches the first page with the empty token   *)
(* and every later page with the nextPageToken of the page before; it      *)
(* fetches on while that token is not empty and stops at the first page    *)
(* whose token is empty or missing, however many pages that takes; it      *)
(* returns the shopSku of every entry fetched, in order.                   *)
(***************************************************************************)
C10_TokenPaging ==
    prog \in MarketProgs =>
        LET f == Fetched
        IN  /\ f # <<>> => f[1].page = EMPTY
            /\ \A i \in 2..Len(f) : f[i].page = f[i - 1].next
            /\ \A i \in 1..(Len(f) - 1) : f[i].next \notin {EMPTY, NONE}
            /\ (pc = "fetch" /\ f # <<>>) => f[Len(f)].next \notin {EMPTY, NONE}
            /\ (f # <<>> /\ f[Len(f)].next \in {EMPTY, NONE}) =>
                   /\ pc # "fetch"
                   /\ known = Concat([i \in 1..Len(f) |-> f[i].ids])
                   /\ Len(f) = Len(MarketPages(catalog[campaign]))

\* a listing of three pages, the last of them without a token
C10_Witness ==
    /\ prog \in MarketProgs
    /\ Len(Fetched) = 3
    /\ Fetched[3].next = NONE
    /\ known = Concat([i \in 1..3 |-> Fetched[i].ids])
    /\ Len(known) = 3

(***************************************************************************)
(* C11: seller.get_offer_ids fetches the first page with the empty last_id *)
(* and every later page with the last_id of the page before; it goes on    *)
(* exactly while the number of items gathered differs from the total the   *)
(* latest page reported; over a catalog of T items served in full pages    *)
(* of OZON_LIMIT it makes max(1, ceil(T/OZON_LIMIT)) fetches and returns   *)
(* the T offer ids in catalog order, each once.                            *)
(***************************************************************************)
\* max(1, ceil(T/limit))
FetchesNeeded(T, limit) == IF T = 0 THEN 1 ELSE (T + limit - 1) \div limit

\* no exception has left the program
NothingRaised == report = "" /\ pc # "raised"

C11_CountPaging ==
    prog \in SellerProgs =>
        LET f      == Fetched
            T      == Len(catalog["OZON"])
            needed == FetchesNeeded(T, OZON_LIMIT)
        IN  /\ f # <<>> => f[1].page = ""
            /\ \A i \in 2..Len(f) : f[i].page = f[i - 1].next
            /\ Len(f) <= needed
            /\ (pc = "fetch" /\ f # <<>>) => Len(product_list) # T
            /\ pc = "fetch" => Len(f) < needed
            /\ ((pc # "fetch" /\ NothingRaised) \/ Len(f) = needed) =>
                   /\ pc # "fetch"
                   /\ Len(f) = needed
                   /\ Len(product_list) = T
                   /\ known = catalog["OZON"]
                   /\ known = Concat([i \in 1..Len(f) |-> f[i].ids])
                   /\ NoDup(known)

\* a catalog of more items than a page holds, gathered in two fetches
C11_Witness ==
    /\ prog \in SellerProgs
    /\ pc # "fetch"
    /\ Len(Fetched) = 2
    /\ Len(Fetched[1].ids) = OZON_LIMIT
    /\ Fetched[2].page = Fetched[1].ids[OZON_LIMIT]
    /\ Len(known) = OZON_LIMIT + 1
    /\ known = catalog["OZON"]

(***************************************************************************)
(* C12: when the k-th batch submission of a run of main (of either script) *)
(* raises a transport error, the k-1 calls made before it stay as they     *)
(* were, the k-th and the later batches are never submitted (no stock      *)
(* batch, no price batch, none for a later campaign), no step follows the  *)
(* failure, and the run has ended with a report that is "timeout" for      *)
(* ReadTimeout, "connection" for ConnectionError and "ERROR_2" for         *)
(* anything else.                                                          *)
(***************************************************************************)
\* main has caught an exception
Reported == prog \in Mains /\ report # ""

\* the exception came out of a submission: batches still holds the batch
\* that failed and those after it
SubmissionFailed == Reported /\ batches # <<>>

C12_Ended ==
    Reported =>
        /\ pc = "done"
        /\ report = "timeout" <=> exc = "ReadTimeout"
        /\ report = "connection" <=> exc = "ConnectionError"
        /\ report = "ERROR_2" <=> exc \notin {"ReadTimeout", "ConnectionError"}
        /\ SubmissionFailed =>
               /\ exc \in Transport
               /\ \/ /\ Batches(CallsOf("update_stocks")) \o batches
                          = divide(stocks, StockCeiling)
                     /\ CallsOf("update_price") = <<>>
                  \/ /\ Batches(CallsOf("update_stocks"))
                          = divide(stocks, StockCeiling)
                     /\ Batches(CallsOf("update_price")) \o batches
                          = divide(prices, OZON_PRICES_MAIN)
               /\ campaign = "FBS" =>
                      \A c \in 1..Len(calls) : calls[c].campaign = "FBS"

C12_Step ==
    /\ Len(calls') >= Len(calls)
    /\ SubSeq(calls', 1, Len(calls)) = calls
    /\ Reported => UNCHANGED vars
    /\ (prog \in Mains /\ pc \in {"send_stocks", "send_prices"}
          /\ report = "" /\ report' # "") =>
           /\ calls' = calls
           /\ batches' = batches
           /\ pc' = "done"

C12_SubmissionFailure == [](C12_Ended) /\ [][C12_Step]_vars

\* the second of two stock batches timed out after the first went through
C12_Witness ==
    /\ SubmissionFailed
    /\ report = "timeout"
    /\ Len(CallsOf("update_stocks")) = 1
    /\ Len(batches) = 1

(***************************************************************************)
(* C15: in a run of market.main in which nothing fails, once the stock     *)
(* batches of a campaign are out and before the run turns to the next      *)
(* campaign or ends, update_price has been called with the price batches   *)
(* of that campaign: together they hold one price record per feed row      *)
(* whose code is in the campaign's catalog, so at least one call is made   *)
(* for a campaign with a matching row.                                     *)
(***************************************************************************)
\* the run has left the campaign c behind
CampaignOver(c) == (c = "FBS" /\ campaign = "DBS") \/ pc = "done"

PriceCallsFor(c) ==
    SelectSeq(calls, LAMBDA x : x.fn = "update_price" /\ x.campaign = c)

C15_PricePhasePerCampaign ==
    (prog = "market.main" /\ report = "") =>
        \A c \in {"FBS", "DBS"} :
            CampaignOver(c) =>
                LET matching == CodesIn(watch_remnants, Elems(catalog[c]))
                IN  /\ PriceIds(Concat(Batches(PriceCallsFor(c)))) = matching
                    /\ matching # <<>> => PriceCallsFor(c) # <<>>

====
